---- MODULE Spec2Model ----
(***************************************************************************)
(* Invisible Maze (client/script.js): the maze generator, the connectivity *)
(* check and the navigation handlers, as a state machine over STATE.       *)
(*                                                                         *)
(* JavaScript runs every event handler to completion, so a handler that    *)
(* contains a loop (startGame -> generateLevel) is modelled with a program *)
(* counter pc: while pc # "idle" no other handler is enabled.              *)
(* The comparator shuffle of possibleWalls is modelled by keeping the      *)
(* candidates as a set and letting every loop iteration take any candidate *)
(* that has not been tried yet: this yields every order a shuffle can.     *)
(* The arrays STATE.walls and STATE.revealedWalls are modelled as bags: the *)
(* code only pushes, pops the element just pushed and tests membership     *)
(* (some, includes), so it never observes the order, while a bag still     *)
(* tells an entry stored twice from an entry stored once.                  *)
(* A wall key `${x},${y},${dir}` is modelled as the tuple <<x, y, dir>>    *)
(* (the template string is injective on integer coordinates).              *)
(***************************************************************************)
EXTENDS Integers, Sequences, FiniteSets, Bags, TLC

VARIABLES difficulty, mode, gridSize, avatarPos, keyPos, doorPos, hasKey,
          attempts, walls, revealedWalls, isPlaying,
          pc, possibleWalls, targetWalls, addedWalls,
          outcome, levelSaves,
          bfs, timeSec, score

vars == <<difficulty, mode, gridSize, avatarPos, keyPos, doorPos, hasKey,
          attempts, walls, revealedWalls, isPlaying,
          pc, possibleWalls, targetWalls, addedWalls,
          outcome, levelSaves,
          bfs, timeSec, score>>

\* the frame of a hasPath call and the score computation of endGame(true):
\* they are followed on their own in SpecPath and SpecScore
callVars == <<bfs, timeSec, score>>

runState == <<avatarPos, hasKey, attempts, revealedWalls>>

(* ---------------- bounds of the model ---------------- *)
MaxAttempts == 2       \* collisions explored per level
MaxSaves == 2          \* saveScore calls explored per level
MaxGenLoad == 5        \* generator specification: grid size + wall target
MaxTimeSec == 40       \* score specification: elapsed seconds
MaxScoreAttempts == 21 \* score specification: attempts
MaxPathLoad == 11      \* path specification: cells of the grid + walls on it

(* ---------------- configuration ---------------- *)
CONFIG ==
  [ EASY   |-> [size |-> 3, walls |-> 2],
    MEDIUM |-> [size |-> 4, walls |-> 6],
    HARD   |-> [size |-> 5, walls |-> 12] ]

\* difficulties whose button is pressed in the model, and those for which a
\* level is generated (a 4x4 level with 6 walls has too many layouts)
Difficulties == {"EASY", "MEDIUM"}
Playable == {"EASY"}
Modes == {"PRACTICE", "CHALLENGE"}
MoveDirs == {"top", "bottom", "left", "right"}

Pos(x, y) == [x |-> x, y |-> y]
Wall(x, y, d) == [x |-> x, y |-> y, dir |-> d]

(* ---------------- pure helpers ---------------- *)

\* hasWall(x, y, moveDir) over the wall array W
hasWall(W, x, y, moveDir) ==
  IF moveDir = "right"
    THEN \E w \in BagToSet(W) : w.x = x /\ w.y = y /\ w.dir = "right"
  ELSE IF moveDir = "left"
    THEN \E w \in BagToSet(W) : w.x = x - 1 /\ w.y = y /\ w.dir = "right"
  ELSE IF moveDir = "bottom"
    THEN \E w \in BagToSet(W) : w.x = x /\ w.y = y /\ w.dir = "bottom"
  ELSE IF moveDir = "top"
    THEN \E w \in BagToSet(W) : w.x = x /\ w.y = y - 1 /\ w.dir = "bottom"
  ELSE FALSE

\* the dirs array of hasPath, in source order
dirs ==
  << [dx |-> 0,  dy |-> -1, dir |-> "top"],
     [dx |-> 0,  dy |-> 1,  dir |-> "bottom"],
     [dx |-> -1, dy |-> 0,  dir |-> "left"],
     [dx |-> 1,  dy |-> 0,  dir |-> "right"] >>

\* the inner for-loop without the visited test
RECURSIVE Expand_noVisited(_, _, _, _, _, _)
Expand_noVisited(W, size, curr, k, queue, visited) ==
  IF k > Len(dirs) THEN [queue |-> queue, visited |-> visited]
  ELSE
    LET d == dirs[k]
        nx == curr.x + d.dx
        ny == curr.y + d.dy
    IN IF /\ nx >= 0 /\ nx < size /\ ny >= 0 /\ ny < size
          /\ ~hasWall(W, curr.x, curr.y, d.dir)
         THEN Expand_noVisited(W, size, curr, k + 1,
                               Append(queue, Pos(nx, ny)),
                               visited \cup {Pos(nx, ny)})
         ELSE Expand_noVisited(W, size, curr, k + 1, queue, visited)

\* the inner for-loop of hasPath over dirs[k..4] for the dequeued cell curr:
\* returns the queue and the visited set after the loop
RECURSIVE Expand(_, _, _, _, _, _)
Expand(W, size, curr, k, queue, visited) ==
  IF k > Len(dirs) THEN [queue |-> queue, visited |-> visited]
  ELSE
    LET d == dirs[k]
        nx == curr.x + d.dx
        ny == curr.y + d.dy
    IN IF /\ nx >= 0 /\ nx < size /\ ny >= 0 /\ ny < size
          /\ ~hasWall(W, curr.x, curr.y, d.dir)
          /\ Pos(nx, ny) \notin visited
         THEN Expand(W, size, curr, k + 1, Append(queue, Pos(nx, ny)),
                     visited \cup {Pos(nx, ny)})
         ELSE Expand(W, size, curr, k + 1, queue, visited)

\* the while-loop of hasPath
RECURSIVE BFS(_, _, _, _, _)
BFS(W, size, queue, visited, end) ==
  IF Len(queue) = 0 THEN FALSE
  ELSE
    LET curr == Head(queue)
    IN IF curr.x = end.x /\ curr.y = end.y THEN TRUE
       ELSE \* r is bound by a quantifier so that the for-loop is evaluated
            \* once per iteration, also where ENABLED is evaluated
            \E r \in {Expand(W, size, curr, 1, Tail(queue), visited)} :
              BFS(W, size, r.queue, r.visited, end)

hasPath(W, size, start, end) == BFS(W, size, <<start>>, {start}, end)

\* isSolvable that forgets the key -> door half
isSolvable_startOnly(W, size, avatar, key, door) ==
  hasPath(W, size, avatar, key)

\* isSolvable() reads STATE.avatarPos, STATE.keyPos, STATE.doorPos
isSolvable(W, size, avatar, key, door) ==
  IF ~hasPath(W, size, avatar, key) THEN FALSE
  ELSE hasPath(W, size, key, door)

\* the candidate list with the column loop of the vertical walls one too long
AllPossibleWalls_wide(size) ==
  {Wall(x, y, "bottom") : x \in 0..(size - 1), y \in 0..(size - 2)}
  \cup {Wall(x, y, "right") : x \in 0..(size - 1), y \in 0..(size - 1)}

\* the candidate list built by the two nested loops of generateLevel
AllPossibleWalls(size) ==
  {Wall(x, y, "bottom") : x \in 0..(size - 1), y \in 0..(size - 2)}
  \cup {Wall(x, y, "right") : x \in 0..(size - 2), y \in 0..(size - 1)}

\* the wall key with the 'left' case naming the cell moved from
wallKey_leftOwn(fromX, fromY, dir) ==
  IF dir = "right" THEN <<fromX, fromY, "right">>
  ELSE IF dir = "bottom" THEN <<fromX, fromY, "bottom">>
  ELSE IF dir = "left" THEN <<fromX, fromY, "right">>
  ELSE IF dir = "top" THEN <<fromX, fromY - 1, "bottom">>
  ELSE <<>>

\* the wall key computed by handleCollision
wallKey(fromX, fromY, dir) ==
  IF dir = "right" THEN <<fromX, fromY, "right">>
  ELSE IF dir = "bottom" THEN <<fromX, fromY, "bottom">>
  ELSE IF dir = "left" THEN <<fromX - 1, fromY, "right">>
  ELSE IF dir = "top" THEN <<fromX, fromY - 1, "bottom">>
  ELSE <<>>

\* Array.prototype.push and pop of the element pushed last
push(arr, e) == arr (+) SetToBag({e})
pop(arr, e) == arr (-) SetToBag({e})

\* includes that never finds the key
includes_never(arr, k) == FALSE

includes(arr, k) == BagIn(k, arr)

\* no hasPath call is being followed; no score has been written
NoCall ==
  [start |-> Pos(0, 0), end |-> Pos(0, 0), queue |-> <<>>, visited |-> {},
   enqueued |-> <<>>, result |-> "none"]
NoScore == <<>>

(* ---------------- initial state ---------------- *)

\* STATE literal, then init() -> selectDifficulty('EASY')
Init ==
  /\ difficulty = "EASY"
  /\ mode = "PRACTICE"
  /\ gridSize = 3
  /\ avatarPos = Pos(0, 0)
  /\ keyPos = Pos(0, 0)
  /\ doorPos = Pos(0, 0)
  /\ hasKey = FALSE
  /\ attempts = 0
  /\ walls = EmptyBag
  /\ revealedWalls = EmptyBag
  /\ isPlaying = FALSE
  /\ pc = "idle"
  /\ possibleWalls = {}
  /\ targetWalls = 0
  /\ addedWalls = 0
  /\ outcome = "NONE"
  /\ levelSaves = 0
  /\ bfs = NoCall
  /\ timeSec = 0
  /\ score = NoScore

(* ---------------- menu handlers ---------------- *)

selectDifficulty(diff) ==
  /\ pc = "idle"
  /\ difficulty' = diff
  /\ gridSize' = CONFIG[diff].size
  /\ UNCHANGED <<mode, avatarPos, keyPos, doorPos, hasKey, attempts, walls,
                 revealedWalls, isPlaying, pc, possibleWalls, targetWalls,
                 addedWalls, outcome, levelSaves, callVars>>

setMode(m) ==
  /\ pc = "idle"
  /\ mode' = m
  /\ UNCHANGED <<difficulty, gridSize, avatarPos, keyPos, doorPos, hasKey,
                 attempts, walls, revealedWalls, isPlaying, pc, possibleWalls,
                 targetWalls, addedWalls, outcome, levelSaves, callVars>>

\* the in-game home button
gameHome ==
  /\ pc = "idle"
  /\ isPlaying' = FALSE
  /\ UNCHANGED <<difficulty, mode, gridSize, avatarPos, keyPos, doorPos,
                 hasKey, attempts, walls, revealedWalls, pc, possibleWalls,
                 targetWalls, addedWalls, outcome, levelSaves, callVars>>

(* ---------------- startGame / generateLevel ---------------- *)

\* startGame that forgets to empty revealedWalls
startGame_keepRevealed ==
  /\ pc = "idle"
  /\ difficulty \in Playable
  /\ isPlaying' = TRUE
  /\ attempts' = 0
  /\ hasKey' = FALSE
  /\ avatarPos' = Pos(0, gridSize - 1)
  /\ doorPos' = Pos(gridSize - 1, 0)
  /\ targetWalls' = CONFIG[difficulty].walls
  /\ outcome' = "NONE"
  /\ levelSaves' = 0
  /\ pc' = "key"
  /\ UNCHANGED <<difficulty, mode, gridSize, keyPos, walls, possibleWalls,
                 addedWalls, revealedWalls, callVars>>

\* startGame up to the entry of the key rejection loop of generateLevel
startGame ==
  /\ pc = "idle"
  /\ difficulty \in Playable
  /\ isPlaying' = TRUE
  /\ attempts' = 0
  /\ hasKey' = FALSE
  /\ revealedWalls' = EmptyBag
  /\ avatarPos' = Pos(0, gridSize - 1)
  /\ doorPos' = Pos(gridSize - 1, 0)
  /\ targetWalls' = CONFIG[difficulty].walls
  /\ outcome' = "NONE"
  /\ levelSaves' = 0
  /\ pc' = "key"
  /\ UNCHANGED <<difficulty, mode, gridSize, keyPos, walls, possibleWalls,
                 addedWalls, callVars>>

\* one iteration of the do-while key loop; on acceptance the candidate list
\* is built and STATE.walls is emptied
drawKey ==
  /\ pc = "key"
  /\ \E kx \in 0..(gridSize - 1), ky \in 0..(gridSize - 1) :
       /\ keyPos' = Pos(kx, ky)
       /\ IF \/ (kx = avatarPos.x /\ ky = avatarPos.y)
             \/ (kx = doorPos.x /\ ky = doorPos.y)
            THEN UNCHANGED <<walls, possibleWalls, addedWalls, pc>>
            ELSE /\ walls' = EmptyBag
                 /\ possibleWalls' = AllPossibleWalls(gridSize)
                 /\ addedWalls' = 0
                 /\ pc' = "walls"
  /\ UNCHANGED <<difficulty, mode, gridSize, avatarPos, doorPos, hasKey,
                 attempts, revealedWalls, isPlaying, targetWalls, outcome,
                 levelSaves, callVars>>

\* the wall loop leaving at the first rejected candidate
wallStep_breakOnReject ==
  /\ pc = "walls"
  /\ IF addedWalls >= targetWalls \/ possibleWalls = {}
       THEN /\ pc' = "idle"
            /\ possibleWalls' = {}
            /\ addedWalls' = 0
            /\ UNCHANGED walls
       ELSE \E wall \in possibleWalls :
              IF ~isSolvable(push(walls, wall), gridSize, avatarPos,
                             keyPos, doorPos)
                THEN /\ walls' = pop(push(walls, wall), wall)
                     /\ possibleWalls' = {}
                     /\ addedWalls' = 0
                     /\ pc' = "idle"
                ELSE /\ walls' = push(walls, wall)
                     /\ possibleWalls' = possibleWalls \ {wall}
                     /\ addedWalls' = addedWalls + 1
                     /\ pc' = pc
  /\ UNCHANGED <<difficulty, mode, gridSize, avatarPos, keyPos, doorPos,
                 hasKey, attempts, revealedWalls, isPlaying, targetWalls,
                 outcome, levelSaves, callVars>>

\* the wall loop with the break test off by one
wallStep_overTarget ==
  /\ pc = "walls"
  /\ IF addedWalls > targetWalls \/ possibleWalls = {}
       THEN /\ pc' = "idle"
            /\ possibleWalls' = {}
            /\ addedWalls' = 0
            /\ UNCHANGED walls
       ELSE \E wall \in possibleWalls :
              IF ~isSolvable(push(walls, wall), gridSize, avatarPos,
                             keyPos, doorPos)
                THEN /\ walls' = pop(push(walls, wall), wall)
                     /\ possibleWalls' = possibleWalls \ {wall}
                     /\ UNCHANGED <<addedWalls, pc>>
                ELSE /\ walls' = push(walls, wall)
                     /\ possibleWalls' = possibleWalls \ {wall}
                     /\ addedWalls' = addedWalls + 1
                     /\ pc' = pc
  /\ UNCHANGED <<difficulty, mode, gridSize, avatarPos, keyPos, doorPos,
                 hasKey, attempts, revealedWalls, isPlaying, targetWalls,
                 outcome, levelSaves, callVars>>

\* the wall loop offering a tried candidate again
wallStep_noRemove ==
  /\ pc = "walls"
  /\ IF addedWalls >= targetWalls \/ possibleWalls = {}
       THEN /\ pc' = "idle"
            /\ possibleWalls' = {}
            /\ addedWalls' = 0
            /\ UNCHANGED walls
       ELSE \E wall \in possibleWalls :
              IF ~isSolvable(push(walls, wall), gridSize, avatarPos,
                             keyPos, doorPos)
                THEN /\ walls' = pop(push(walls, wall), wall)
                     /\ possibleWalls' = possibleWalls \ {wall}
                     /\ UNCHANGED <<addedWalls, pc>>
                ELSE /\ walls' = push(walls, wall)
                     /\ possibleWalls' = possibleWalls
                     /\ addedWalls' = addedWalls + 1
                     /\ pc' = pc
  /\ UNCHANGED <<difficulty, mode, gridSize, avatarPos, keyPos, doorPos,
                 hasKey, attempts, revealedWalls, isPlaying, targetWalls,
                 outcome, levelSaves, callVars>>

\* one iteration of the for-of loop over the shuffled candidates, or its exit
\* (on return the locals possibleWalls and addedWalls are gone)
wallStep ==
  /\ pc = "walls"
  /\ IF addedWalls >= targetWalls \/ possibleWalls = {}
       THEN /\ pc' = "idle"
            /\ possibleWalls' = {}
            /\ addedWalls' = 0
            /\ UNCHANGED walls
       ELSE \E wall \in possibleWalls :
              /\ possibleWalls' = possibleWalls \ {wall}
              /\ pc' = pc
              /\ IF ~isSolvable(push(walls, wall), gridSize, avatarPos,
                                keyPos, doorPos)
                   THEN /\ walls' = pop(push(walls, wall), wall)
                        /\ UNCHANGED addedWalls
                   ELSE /\ walls' = push(walls, wall)
                        /\ addedWalls' = addedWalls + 1
  /\ UNCHANGED <<difficulty, mode, gridSize, avatarPos, keyPos, doorPos,
                 hasKey, attempts, revealedWalls, isPlaying, targetWalls,
                 outcome, levelSaves, callVars>>

(* ---------------- navigation ---------------- *)

\* endGame(success): effect on isPlaying, the outcome shown and saveScore
endGame(success) ==
  /\ isPlaying' = FALSE
  /\ IF success
       THEN /\ levelSaves < MaxSaves
            /\ levelSaves' = levelSaves + 1
            /\ outcome' = "LEVEL_COMPLETE"
       ELSE /\ outcome' = "LEVEL_FAILED"
            /\ UNCHANGED levelSaves

\* handleCollision that also takes the key away
handleCollision_resetKey(fromX, fromY, dir) ==
  /\ attempts < MaxAttempts
  /\ attempts' = attempts + 1
  /\ revealedWalls' =
       IF ~includes(revealedWalls, wallKey(fromX, fromY, dir))
         THEN push(revealedWalls, wallKey(fromX, fromY, dir))
         ELSE revealedWalls
  /\ avatarPos' = Pos(0, gridSize - 1)
  /\ IF mode = "CHALLENGE"
       THEN endGame(FALSE)
       ELSE UNCHANGED <<isPlaying, outcome, levelSaves>>
  /\ hasKey' = FALSE

\* handleCollision that shows only the wall hit last
handleCollision_lastOnly(fromX, fromY, dir) ==
  /\ attempts < MaxAttempts
  /\ attempts' = attempts + 1
  /\ revealedWalls' = SetToBag({wallKey(fromX, fromY, dir)})
  /\ avatarPos' = Pos(0, gridSize - 1)
  /\ IF mode = "CHALLENGE"
       THEN endGame(FALSE)
       ELSE UNCHANGED <<isPlaying, outcome, levelSaves>>
  /\ UNCHANGED hasKey

\* handleCollision that ends the level in every mode
handleCollision_alwaysEnd(fromX, fromY, dir) ==
  /\ attempts < MaxAttempts
  /\ attempts' = attempts + 1
  /\ revealedWalls' =
       IF ~includes(revealedWalls, wallKey(fromX, fromY, dir))
         THEN push(revealedWalls, wallKey(fromX, fromY, dir))
         ELSE revealedWalls
  /\ avatarPos' = Pos(0, gridSize - 1)
  /\ endGame(FALSE)
  /\ UNCHANGED hasKey

\* handleCollision that resets the avatar one row below the grid
handleCollision_offGrid(fromX, fromY, dir) ==
  /\ attempts < MaxAttempts
  /\ attempts' = attempts + 1
  /\ revealedWalls' =
       IF ~includes(revealedWalls, wallKey(fromX, fromY, dir))
         THEN push(revealedWalls, wallKey(fromX, fromY, dir))
         ELSE revealedWalls
  /\ avatarPos' = Pos(0, gridSize)
  /\ IF mode = "CHALLENGE"
       THEN endGame(FALSE)
       ELSE UNCHANGED <<isPlaying, outcome, levelSaves>>
  /\ UNCHANGED hasKey

handleCollision(fromX, fromY, dir) ==
  /\ attempts < MaxAttempts
  /\ attempts' = attempts + 1
  /\ revealedWalls' =
       IF ~includes(revealedWalls, wallKey(fromX, fromY, dir))
         THEN push(revealedWalls, wallKey(fromX, fromY, dir))
         ELSE revealedWalls
  /\ avatarPos' = Pos(0, gridSize - 1)
  /\ IF mode = "CHALLENGE"
       THEN endGame(FALSE)
       ELSE UNCHANGED <<isPlaying, outcome, levelSaves>>
  /\ UNCHANGED hasKey

\* checkEntityCollision that holds the key only while standing on it
checkEntityCollision_dropKey(p) ==
  LET gotKey == p.x = keyPos.x /\ p.y = keyPos.y
  IN /\ hasKey' = gotKey
     /\ IF p.x = doorPos.x /\ p.y = doorPos.y /\ gotKey
          THEN endGame(TRUE)
          ELSE UNCHANGED <<isPlaying, outcome, levelSaves>>

\* checkEntityCollision whose door does not ask for the key
checkEntityCollision_openDoor(p) ==
  LET gotKey == ~hasKey /\ p.x = keyPos.x /\ p.y = keyPos.y
      key2 == hasKey \/ gotKey
  IN /\ hasKey' = key2
     /\ IF p.x = doorPos.x /\ p.y = doorPos.y
          THEN endGame(TRUE)
          ELSE UNCHANGED <<isPlaying, outcome, levelSaves>>

\* checkEntityCollision at the new avatar position p
checkEntityCollision(p) ==
  LET gotKey == ~hasKey /\ p.x = keyPos.x /\ p.y = keyPos.y
      key2 == hasKey \/ gotKey
  IN /\ hasKey' = key2
     /\ IF p.x = doorPos.x /\ p.y = doorPos.y /\ key2
          THEN endGame(TRUE)
          ELSE UNCHANGED <<isPlaying, outcome, levelSaves>>

\* moveAvatar without the bounds check
moveAvatar_noBounds(dir) ==
  LET x == avatarPos.x
      y == avatarPos.y
      nx == IF dir = "left" THEN x - 1 ELSE IF dir = "right" THEN x + 1 ELSE x
      ny == IF dir = "top" THEN y - 1 ELSE IF dir = "bottom" THEN y + 1 ELSE y
  IN /\ IF hasWall(walls, x, y, dir)
          THEN handleCollision(x, y, dir)
          ELSE /\ avatarPos' = Pos(nx, ny)
               /\ checkEntityCollision(Pos(nx, ny))
               /\ UNCHANGED <<attempts, revealedWalls>>
     /\ UNCHANGED <<difficulty, mode, gridSize, keyPos, doorPos, walls, pc,
                    possibleWalls, targetWalls, addedWalls, callVars>>

\* moveAvatar without the hasWall check
moveAvatar_throughWalls(dir) ==
  LET x == avatarPos.x
      y == avatarPos.y
      nx == IF dir = "left" THEN x - 1 ELSE IF dir = "right" THEN x + 1 ELSE x
      ny == IF dir = "top" THEN y - 1 ELSE IF dir = "bottom" THEN y + 1 ELSE y
  IN /\ IF nx < 0 \/ nx >= gridSize \/ ny < 0 \/ ny >= gridSize
          THEN UNCHANGED <<avatarPos, hasKey, attempts, revealedWalls,
                           isPlaying, outcome, levelSaves>>
        ELSE /\ avatarPos' = Pos(nx, ny)
             /\ checkEntityCollision(Pos(nx, ny))
             /\ UNCHANGED <<attempts, revealedWalls>>
     /\ UNCHANGED <<difficulty, mode, gridSize, keyPos, doorPos, walls, pc,
                    possibleWalls, targetWalls, addedWalls, callVars>>

moveAvatar(dir) ==
  LET x == avatarPos.x
      y == avatarPos.y
      nx == IF dir = "left" THEN x - 1 ELSE IF dir = "right" THEN x + 1 ELSE x
      ny == IF dir = "top" THEN y - 1 ELSE IF dir = "bottom" THEN y + 1 ELSE y
  IN /\ IF nx < 0 \/ nx >= gridSize \/ ny < 0 \/ ny >= gridSize
          THEN UNCHANGED <<avatarPos, hasKey, attempts, revealedWalls,
                           isPlaying, outcome, levelSaves>>
        ELSE IF hasWall(walls, x, y, dir)
          THEN handleCollision(x, y, dir)
        ELSE /\ avatarPos' = Pos(nx, ny)
             /\ checkEntityCollision(Pos(nx, ny))
             /\ UNCHANGED <<attempts, revealedWalls>>
     /\ UNCHANGED <<difficulty, mode, gridSize, keyPos, doorPos, walls, pc,
                    possibleWalls, targetWalls, addedWalls, callVars>>

\* keydown listener: handleInput
handleInput(dir) ==
  /\ pc = "idle"
  /\ isPlaying
  /\ moveAvatar(dir)

\* click / touchstart listener of a .btn-control button
controlButton(dir) ==
  /\ pc = "idle"
  /\ moveAvatar(dir)

(* ---------------- hasPath, one loop iteration at a time ---------------- *)

\* one iteration of the while-loop of hasPath(bfs.start, bfs.end), or its
\* exit; bfs.enqueued records every cell that was ever put in the queue
hasPathStep ==
  /\ bfs.result = "running"
  /\ bfs' =
       IF Len(bfs.queue) = 0 THEN [bfs EXCEPT !.result = "false"]
       ELSE
         LET curr == Head(bfs.queue)
             rest == Tail(bfs.queue)
         IN IF curr.x = bfs.end.x /\ curr.y = bfs.end.y
              THEN [bfs EXCEPT !.queue = rest, !.result = "true"]
              ELSE LET r == Expand(walls, gridSize, curr, 1, rest, bfs.visited)
                   IN [bfs EXCEPT
                         !.queue = r.queue,
                         !.visited = r.visited,
                         !.enqueued =
                           @ \o SubSeq(r.queue, Len(rest) + 1, Len(r.queue))]
  /\ UNCHANGED <<difficulty, mode, gridSize, avatarPos, keyPos, doorPos,
                 hasKey, attempts, walls, revealedWalls, isPlaying, pc,
                 possibleWalls, targetWalls, addedWalls, outcome, levelSaves,
                 timeSec, score>>

(* ---------------- the score of endGame(true) ---------------- *)

max(a, b) == IF a >= b THEN a ELSE b

\* score with the two penalties swapped
scoreOf_swapped(t, a) == max(0, 1000 - (t * 50) - (a * 5))

\* const score = Math.max(0, 1000 - (timeSec * 5) - (STATE.attempts * 50))
scoreOf(t, a) == max(0, 1000 - (t * 5) - (a * 50))

\* the score computation of endGame(true), written to #final-score
scoreCalc ==
  /\ score = NoScore
  /\ score' = <<scoreOf(timeSec, attempts)>>
  /\ UNCHANGED <<difficulty, mode, gridSize, avatarPos, keyPos, doorPos,
                 hasKey, attempts, walls, revealedWalls, isPlaying, pc,
                 possibleWalls, targetWalls, addedWalls, outcome, levelSaves,
                 bfs, timeSec>>

(* ---------------- specifications ---------------- *)

Next ==
  \/ \E m \in Modes : setMode(m)
  \/ gameHome
  \/ startGame
  \/ drawKey
  \/ wallStep
  \/ \E dir \in MoveDirs : handleInput(dir)
  \/ \E dir \in MoveDirs : controlButton(dir)

Spec == Init /\ [][Next]_vars

\* the same program with the difficulty buttons pressed as well
NextDiff ==
  \/ Next
  \/ \E diff \in Difficulties : selectDifficulty(diff)

SpecDiff == Init /\ [][NextDiff]_vars

\* generateLevel entered for a CONFIG entry of any size and wall target (the
\* README documents adding entries): the state at the key rejection loop.
\* The larger the grid, the smaller the targets explored on it.
InitGen ==
  /\ difficulty = "EASY"
  /\ mode = "PRACTICE"
  /\ gridSize \in 2..MaxGenLoad
  /\ targetWalls \in 0..(MaxGenLoad - gridSize)
  /\ avatarPos = Pos(0, gridSize - 1)
  /\ doorPos = Pos(gridSize - 1, 0)
  /\ keyPos = Pos(0, 0)
  /\ hasKey = FALSE
  /\ attempts = 0
  /\ walls = EmptyBag
  /\ revealedWalls = EmptyBag
  /\ isPlaying = TRUE
  /\ pc = "key"
  /\ possibleWalls = {}
  /\ addedWalls = 0
  /\ outcome = "NONE"
  /\ levelSaves = 0
  /\ bfs = NoCall
  /\ timeSec = 0
  /\ score = NoScore

NextGen ==
  \/ drawKey
  \/ wallStep

SpecGen == InitGen /\ [][NextGen]_vars

\* endGame(true) reached after any number of whole seconds and attempts
InitScore ==
  /\ difficulty = "EASY"
  /\ mode = "PRACTICE"
  /\ gridSize = 3
  /\ avatarPos = Pos(2, 0)
  /\ doorPos = Pos(2, 0)
  /\ keyPos = Pos(1, 1)
  /\ hasKey = TRUE
  /\ attempts \in 0..MaxScoreAttempts
  /\ walls = EmptyBag
  /\ revealedWalls = EmptyBag
  /\ isPlaying = FALSE
  /\ pc = "idle"
  /\ possibleWalls = {}
  /\ targetWalls = 0
  /\ addedWalls = 0
  /\ outcome = "LEVEL_COMPLETE"
  /\ levelSaves = 1
  /\ bfs = NoCall
  /\ timeSec \in 0..MaxTimeSec
  /\ score = NoScore

NextScore ==
  \/ scoreCalc

SpecScore == InitScore /\ [][NextScore]_vars

\* an iteration of the key loop whose draw is neither start nor door
drawKeyAccept == drawKey /\ pc' = "walls"

\* generateLevel runs to completion inside one event handler, so its loops
\* keep stepping; the key loop is assumed to draw an accepted cell eventually
SpecGenFair ==
  /\ InitGen
  /\ [][NextGen]_vars
  /\ WF_vars(wallStep)
  /\ WF_vars(drawKeyAccept)

\* the subsets of U with at most k elements
RECURSIVE SmallSubsets(_, _)
SmallSubsets(U, k) ==
  IF k = 0 THEN {{}}
  ELSE LET R == SmallSubsets(U, k - 1)
       IN R \cup {r \cup {u} : r \in R, u \in U}

GridCells(size) == {Pos(x, y) : x \in 0..(size - 1), y \in 0..(size - 1)}

\* hasPath(start, end) entered for any two cells of any grid and any set of
\* walls on it (solvable or not), as far as MaxPathLoad allows
InitPath ==
  /\ difficulty = "EASY"
  /\ mode = "PRACTICE"
  /\ gridSize \in {n \in 2..MaxPathLoad : n * n <= MaxPathLoad}
  /\ walls \in {SetToBag(S) :
                  S \in SmallSubsets(AllPossibleWalls(gridSize),
                                     MaxPathLoad - gridSize * gridSize)}
  /\ avatarPos = Pos(0, gridSize - 1)
  /\ doorPos = Pos(gridSize - 1, 0)
  /\ keyPos = Pos(0, 0)
  /\ hasKey = FALSE
  /\ attempts = 0
  /\ revealedWalls = EmptyBag
  /\ isPlaying = TRUE
  /\ pc = "walls"
  /\ possibleWalls = {}
  /\ targetWalls = 0
  /\ addedWalls = 0
  /\ outcome = "NONE"
  /\ levelSaves = 0
  /\ \E start \in GridCells(gridSize), end \in GridCells(gridSize) :
       bfs = [start |-> start, end |-> end, queue |-> <<start>>,
              visited |-> {start}, enqueued |-> <<start>>,
              result |-> "running"]
  /\ timeSec = 0
  /\ score = NoScore

NextPath ==
  \/ hasPathStep

SpecPath == InitPath /\ [][NextPath]_vars

(* ---------------- vocabulary of the properties ---------------- *)

Cells(size) == {Pos(x, y) : x \in 0..(size - 1), y \in 0..(size - 1)}

Adjacent(a, b) ==
  \/ a.y = b.y /\ (a.x = b.x + 1 \/ b.x = a.x + 1)
  \/ a.x = b.x /\ (a.y = b.y + 1 \/ b.y = a.y + 1)

\* the stored form of the edge between two adjacent cells
CanonWall(a, b) ==
  IF a.y = b.y
    THEN Wall(IF a.x < b.x THEN a.x ELSE b.x, a.y, "right")
    ELSE Wall(a.x, IF a.y < b.y THEN a.y ELSE b.y, "bottom")

WallSet(W) == BagToSet(W)

OpenEdge(W, a, b) == Adjacent(a, b) /\ CanonWall(a, b) \notin WallSet(W)

\* least set containing S and closed under steps over open edges of the grid
RECURSIVE ClosureFrom(_, _, _, _)
ClosureFrom(ws, size, done, frontier) ==
  IF frontier = {} THEN done
  ELSE LET new == {c \in Cells(size) \ done :
                     \E s \in frontier :
                       Adjacent(s, c) /\ CanonWall(s, c) \notin ws}
       IN ClosureFrom(ws, size, done \cup new, new)

Closure(W, size, S) == ClosureFrom(WallSet(W), size, S, S)

Reachable(W, size, a, b) == b \in Closure(W, size, {a})

StartCell == Pos(0, gridSize - 1)

\* the cell moveAvatar(dir) aims at
Target(dir) ==
  IF dir = "top" THEN Pos(avatarPos.x, avatarPos.y - 1)
  ELSE IF dir = "bottom" THEN Pos(avatarPos.x, avatarPos.y + 1)
  ELSE IF dir = "left" THEN Pos(avatarPos.x - 1, avatarPos.y)
  ELSE Pos(avatarPos.x + 1, avatarPos.y)

InGrid(p) == p.x >= 0 /\ p.x < gridSize /\ p.y >= 0 /\ p.y < gridSize

\* a step that is a call of moveAvatar(dir) through either input path
MoveStep(dir) == pc = "idle" /\ moveAvatar(dir)

\* a step that is the start of startGame
StartStep == pc = "idle" /\ pc' = "key"

\* moveAvatar(dir) would cross an edge that carries a wall
Collides(dir) ==
  /\ InGrid(Target(dir))
  /\ CanonWall(avatarPos, Target(dir)) \in WallSet(walls)

KeyOf(w) == <<w.x, w.y, w.dir>>

\* generateLevel has placed the door
LevelGenerated == doorPos = Pos(gridSize - 1, 0) /\ keyPos # doorPos

(* ---------------- properties ---------------- *)

\* C1: after every completed generateLevel the full wall set leaves the key
\* reachable from the start cell (0, N-1) and the door (N-1, 0) reachable
\* from the key over edges that carry no wall.
C1_GeneratedSolvable ==
  pc = "idle" =>
    /\ Reachable(walls, gridSize, Pos(0, gridSize - 1), keyPos)
    /\ Reachable(walls, gridSize, keyPos, Pos(gridSize - 1, 0))

\* a finished generation that kept walls and had to reject candidates: the
\* 2x2 grid ends with 2 walls although 3 were asked for
C1_Witness ==
  /\ pc = "idle"
  /\ gridSize = 2
  /\ targetWalls = 3
  /\ BagCardinality(walls) = 2

\* C2: CHALLENGE mode: once a collision has ended the level (LEVEL_FAILED),
\* no later moveAvatar call through any input path changes avatar position,
\* hasKey, attempts or revealedWalls until the next startGame.
C2_FailedIsTerminal ==
  [][(outcome = "LEVEL_FAILED" /\ ~StartStep) => UNCHANGED runState]_vars

\* C3: a moveAvatar that crosses a walled edge, in either mode and from any
\* cell, adds exactly 1 to attempts, adds the canonical key of the crossed
\* edge to revealedWalls if it was absent and leaves revealedWalls unchanged
\* if it was present, and puts the avatar on the start cell (0, N-1).
C3_CollisionEffect ==
  [][\A dir \in MoveDirs :
       (Collides(dir) /\ MoveStep(dir)) =>
         LET k == KeyOf(CanonWall(avatarPos, Target(dir)))
         IN /\ attempts' = attempts + 1
            /\ revealedWalls' =
                 IF k \in BagToSet(revealedWalls)
                   THEN revealedWalls
                   ELSE revealedWalls (+) SetToBag({k})
            /\ avatarPos' = StartCell]_vars

\* two collisions with the same wall, the second one in CHALLENGE mode
C3_Witness ==
  /\ attempts = 2
  /\ BagCardinality(revealedWalls) = 1
  /\ avatarPos = StartCell
  /\ outcome = "LEVEL_FAILED"

\* C4: once hasKey is true it stays true through every later step, collisions
\* included, and becomes false again only when startGame starts a new level.
C4_KeyKept ==
  [][/\ (hasKey /\ ~StartStep) => hasKey'
     /\ \A dir \in MoveDirs :
          (Collides(dir) /\ MoveStep(dir)) => hasKey' = hasKey]_vars

\* the key is held, the avatar is back on the start cell and a wall was hit
C4_Witness ==
  /\ LevelGenerated
  /\ hasKey
  /\ attempts >= 1
  /\ avatarPos = StartCell
  /\ isPlaying

\* C5 (as claimed): in PRACTICE mode every collision puts the avatar on the
\* start cell and resets hasKey to false.
C5_CollisionResetsKey ==
  [][\A dir \in MoveDirs :
       (mode = "PRACTICE" /\ Collides(dir) /\ MoveStep(dir)) =>
         (avatarPos' = StartCell /\ hasKey' = FALSE)]_vars

\* C5 (amended): in PRACTICE mode every collision puts the avatar on the start
\* cell and leaves hasKey as it was.
C5_CollisionKeepsKey ==
  [][\A dir \in MoveDirs :
       (mode = "PRACTICE" /\ Collides(dir) /\ MoveStep(dir)) =>
         (avatarPos' = StartCell /\ hasKey' = hasKey)]_vars

\* PRACTICE mode, key held, two walls hit, still playing
C5_Witness ==
  /\ LevelGenerated
  /\ mode = "PRACTICE"
  /\ hasKey
  /\ BagCardinality(revealedWalls) = 2
  /\ avatarPos = StartCell
  /\ outcome = "NONE"

\* C6: within a generated level, endGame(true) happens only in a move over an
\* open edge that puts the avatar on the door cell while hasKey is already
\* true; a move onto the door cell while hasKey is false changes only the
\* avatar position.
C6_CompleteNeedsKey ==
  [][LevelGenerated =>
       /\ (levelSaves' > levelSaves) =>
            /\ hasKey /\ hasKey'
            /\ avatarPos' = doorPos
            /\ OpenEdge(walls, avatarPos, avatarPos')
            /\ outcome' = "LEVEL_COMPLETE"
       /\ (outcome' = "LEVEL_COMPLETE" /\ outcome # "LEVEL_COMPLETE") =>
            levelSaves' > levelSaves
       /\ \A dir \in MoveDirs :
            (/\ ~hasKey
             /\ Target(dir) = doorPos
             /\ InGrid(Target(dir))
             /\ ~Collides(dir)
             /\ MoveStep(dir)) =>
              /\ avatarPos' = doorPos
              /\ UNCHANGED <<hasKey, attempts, revealedWalls, isPlaying,
                             outcome, levelSaves>>]_vars

\* the level was completed once, by the keyboard
C6_Witness ==
  /\ LevelGenerated
  /\ outcome = "LEVEL_COMPLETE"
  /\ levelSaves = 1
  /\ avatarPos = doorPos
  /\ hasKey

\* C7: after endGame(true) and until the next startGame no moveAvatar call
\* changes avatar position, hasKey, attempts or revealedWalls, and endGame(true)
\* (saveScore) does not run again.
C7_CompleteIsTerminal ==
  [][(outcome = "LEVEL_COMPLETE" /\ ~StartStep) =>
       UNCHANGED <<runState, levelSaves>>]_vars

\* C8: a moveAvatar whose target cell lies outside the grid changes nothing:
\* avatar position, attempts, hasKey, revealedWalls and isPlaying stay, and
\* neither a collision nor an end of game happens.
C8_OutOfBoundsNoOp ==
  [][\A dir \in MoveDirs :
       (~InGrid(Target(dir)) /\ MoveStep(dir)) =>
         UNCHANGED <<avatarPos, attempts, hasKey, revealedWalls, isPlaying,
                     outcome, levelSaves>>]_vars

\* the avatar has walked to the corner opposite the start column, where two
\* of the four directions leave the grid
C8_Witness ==
  /\ LevelGenerated
  /\ avatarPos = Pos(gridSize - 1, gridSize - 1)
  /\ isPlaying
  /\ attempts = 0

\* C9: between two startGame calls revealedWalls never loses a key; it is
\* emptied only by startGame.
C9_RevealedGrows ==
  [][~StartStep =>
       \A k \in BagToSet(revealedWalls) :
         CopiesIn(k, revealedWalls') >= CopiesIn(k, revealedWalls)]_vars

\* two different walls have been revealed in one level
C9_Witness ==
  /\ BagCardinality(revealedWalls) = 2
  /\ hasKey

\* C10: every key in revealedWalls denotes a wall of the current STATE.walls
\* and revealedWalls holds no key twice.
C10_RevealedAreWalls ==
  /\ \A k \in BagToSet(revealedWalls) :
       /\ \E w \in BagToSet(walls) : KeyOf(w) = k
       /\ CopiesIn(k, revealedWalls) = 1

\* one wall of the level is revealed, after two collisions with it
C10_Witness ==
  /\ BagCardinality(revealedWalls) = 1
  /\ BagCardinality(walls) = 2
  /\ attempts = 2
  /\ isPlaying

\* C15: the score computed at level completion is
\* max(0, 1000 - 5*elapsedSeconds - 50*attempts) for all non-negative whole
\* seconds and attempts; it lies in 0..1000, and 10 seconds with 2 attempts
\* give 850.
C15_Score ==
  score # NoScore =>
    /\ score[1] = (IF 5 * timeSec + 50 * attempts >= 1000
                     THEN 0
                     ELSE 1000 - (5 * timeSec + 50 * attempts))
    /\ score[1] \in 0..1000
    /\ (timeSec = 10 /\ attempts = 2) => score[1] = 850

\* the example of the claim has been computed
C15_Witness ==
  /\ timeSec = 10
  /\ attempts = 2
  /\ score = <<850>>

\* C16: hasPath(start, end) terminates for every wall set, grid size and pair
\* of cells (every iteration that does not return takes one cell off the
\* queue, and at most N*N cells are ever taken off); it returns true exactly
\* when end is reachable from start over in-grid edges without a wall, true
\* when start = end, and no cell is put in the queue more than once.
C16_HasPathCorrect ==
  /\ [](LET dequeued == Len(bfs.enqueued) - Len(bfs.queue)
        IN /\ \A i, j \in 1..Len(bfs.enqueued) :
                i # j => bfs.enqueued[i] # bfs.enqueued[j]
           /\ \A i \in 1..Len(bfs.enqueued) : InGrid(bfs.enqueued[i])
           /\ dequeued >= 0 /\ dequeued <= gridSize * gridSize
           /\ bfs.result \in {"true", "false"} =>
                /\ (bfs.result = "true") =
                     Reachable(walls, gridSize, bfs.start, bfs.end)
                /\ (bfs.result = "true") =
                     hasPath(walls, gridSize, bfs.start, bfs.end)
                /\ bfs.start = bfs.end => bfs.result = "true")
  /\ [][bfs.result = "running" =>
          \/ bfs'.result \in {"true", "false"}
          \/ /\ bfs'.result = "running"
             /\ Len(bfs'.enqueued) - Len(bfs'.queue)
                  = Len(bfs.enqueued) - Len(bfs.queue) + 1]_vars

\* a search that ended without a path on a 3x3 grid after visiting more than
\* one cell
C16_Witness ==
  /\ gridSize = 3
  /\ bfs.result = "false"
  /\ Len(bfs.enqueued) >= 2
  /\ BagCardinality(walls) = 2

\* the wall set S keeps start -> key and key -> door open on a size x size grid
Solvable(S, size, key) ==
  /\ Reachable(SetToBag(S), size, Pos(0, size - 1), key)
  /\ Reachable(SetToBag(S), size, key, Pos(size - 1, 0))

min(a, b) == IF a <= b THEN a ELSE b

\* C11 as stated: generateLevel ends with min(T, M) walls, M being the size
\* of a largest wall set that keeps start -> key and key -> door reachable.
\* Subsets of a solvable wall set are solvable, so the count is M exactly
\* when the kept set is solvable and no solvable set has one wall more.
C11_CountIsMinTargetMax ==
  pc = "idle" =>
    LET count == BagCardinality(walls)
    IN /\ Solvable(WallSet(walls), gridSize, keyPos)
       /\ \/ count = targetWalls
          \/ /\ count < targetWalls
             /\ ~\E S \in SUBSET AllPossibleWalls(gridSize) :
                   /\ Cardinality(S) = count + 1
                   /\ Solvable(S, gridSize, keyPos)

\* C11, amended: generateLevel ends with at most T walls that keep
\* start -> key and key -> door reachable; it ends with fewer than T only when
\* no further candidate can be added to the kept set without breaking
\* reachability (a maximal set, not always a largest one); and the count is at
\* least min(T, (N-1)^2).
C11_CountIsTargetOrMaximal ==
  pc = "idle" =>
    LET count == BagCardinality(walls)
    IN /\ count <= targetWalls
       /\ Solvable(WallSet(walls), gridSize, keyPos)
       /\ \/ count = targetWalls
          \/ \A w \in AllPossibleWalls(gridSize) \ WallSet(walls) :
               ~Solvable(WallSet(walls) \cup {w}, gridSize, keyPos)
       /\ count >= min(targetWalls, (gridSize - 1) * (gridSize - 1))

\* a 2x2 generation that kept the wall between key (0,0) and door and then
\* had to reject the three other candidates, although two walls asked for
\* can be kept for this key (the two walls around (1,1))
C11_Witness ==
  /\ pc = "idle"
  /\ gridSize = 2
  /\ targetWalls >= 2
  /\ keyPos = Pos(0, 0)
  /\ WallSet(walls) = {Wall(0, 0, "right")}
  /\ Solvable({Wall(1, 0, "bottom"), Wall(0, 1, "right")}, gridSize, keyPos)

\* C12: generateLevel never keeps more walls than the target, and for size 3
\* with target 2 (EASY) it ends with exactly 2 walls for every key placement
\* and every candidate order.
C12_AtMostTarget ==
  /\ BagCardinality(walls) <= targetWalls
  /\ addedWalls <= targetWalls
  /\ (pc = "idle" /\ gridSize = CONFIG["EASY"].size
        /\ targetWalls = CONFIG["EASY"].walls)
       => BagCardinality(walls) = CONFIG["EASY"].walls

\* an EASY generation that ended with its two walls after a rejection: the
\* key in the corner (2,2) is walled off on one side only
C12_Witness ==
  /\ pc = "idle"
  /\ gridSize = 3
  /\ targetWalls = 2
  /\ keyPos = Pos(2, 2)
  /\ BagCardinality(walls) = 2
  /\ Wall(1, 2, "right") \in WallSet(walls)

\* C13: after every generateLevel STATE.walls holds no two entries for the
\* same edge, and every entry is in bounds for its orientation: 'right' walls
\* have 0 <= x <= N-2 and 0 <= y <= N-1, 'bottom' walls 0 <= x <= N-1 and
\* 0 <= y <= N-2.
C13_WallsDistinctInBounds ==
  pc = "idle" =>
    \A w \in WallSet(walls) :
      /\ CopiesIn(w, walls) = 1
      /\ \A v \in WallSet(walls) : KeyOf(v) = KeyOf(w) => v = w
      /\ w.dir \in {"right", "bottom"}
      /\ w.dir = "right" =>
           w.x >= 0 /\ w.x <= gridSize - 2 /\ w.y >= 0 /\ w.y <= gridSize - 1
      /\ w.dir = "bottom" =>
           w.x >= 0 /\ w.x <= gridSize - 1 /\ w.y >= 0 /\ w.y <= gridSize - 2

\* a finished generation with a wall of each orientation on the last row and
\* column that can carry one
C13_Witness ==
  /\ pc = "idle"
  /\ gridSize = 3
  /\ Wall(1, 0, "right") \in WallSet(walls)
  /\ Wall(0, 1, "bottom") \in WallSet(walls)

\* the direction of the move back
Opposite(dir) ==
  IF dir = "top" THEN "bottom"
  ELSE IF dir = "bottom" THEN "top"
  ELSE IF dir = "left" THEN "right"
  ELSE "left"

\* the cell one step from a in direction dir
Neighbour(a, dir) ==
  IF dir = "top" THEN Pos(a.x, a.y - 1)
  ELSE IF dir = "bottom" THEN Pos(a.x, a.y + 1)
  ELSE IF dir = "left" THEN Pos(a.x - 1, a.y)
  ELSE Pos(a.x + 1, a.y)

\* C17: for every pair of adjacent in-grid cells a, b and every wall set,
\* hasWall blocks a -> b exactly when it blocks b -> a, a collision on a -> b
\* yields the same wall key as one on b -> a, and that key is the key of the
\* entry stored in STATE.walls for the edge.
C17_EdgeIdentity ==
  \A a \in Cells(gridSize) : \A dir \in MoveDirs :
    LET b == Neighbour(a, dir)
    IN InGrid(b) =>
         /\ hasWall(walls, a.x, a.y, dir)
              = hasWall(walls, b.x, b.y, Opposite(dir))
         /\ wallKey(a.x, a.y, dir) = wallKey(b.x, b.y, Opposite(dir))
         /\ wallKey(a.x, a.y, dir) = KeyOf(CanonWall(a, b))
         /\ hasWall(walls, a.x, a.y, dir)
              = (\E w \in WallSet(walls) : KeyOf(w) = wallKey(a.x, a.y, dir))

\* a search that walls of both orientations have cut off from its end cell
C17_Witness ==
  /\ gridSize = 3
  /\ bfs.result = "false"
  /\ \E w \in WallSet(walls) : w.dir = "right"
  /\ \E w \in WallSet(walls) : w.dir = "bottom"

\* C18: the wall loop starts from the 2*N*(N-1) candidate edges, every
\* iteration removes the tried candidate for good, and the loop ends exactly
\* when the target count is kept or no candidate is left, so it terminates;
\* generateLevel as a whole terminates when the key loop eventually draws a
\* cell other than start and door; no moveAvatar can run while the wall set
\* is being built.
C18_GenerationTerminates ==
  /\ [][/\ (pc = "key" /\ pc' = "walls") =>
             /\ Cardinality(possibleWalls') = 2 * gridSize * (gridSize - 1)
             /\ walls' = EmptyBag
        /\ (pc = "walls" /\ pc' = "walls") =>
             /\ ~(addedWalls >= targetWalls \/ possibleWalls = {})
             /\ \E wall \in possibleWalls :
                  /\ possibleWalls' = possibleWalls \ {wall}
                  /\ walls' \in {walls, walls (+) SetToBag({wall})}
        /\ (pc = "walls" /\ pc' = "idle") =>
             (addedWalls >= targetWalls \/ possibleWalls = {})
        /\ pc = "walls" => pc' \in {"walls", "idle"}]_vars
  /\ [](pc = "walls" =>
          /\ addedWalls = BagCardinality(walls)
          /\ WallSet(walls) \cap possibleWalls = {})
  /\ [](pc # "idle" =>
          ~ENABLED (\E dir \in MoveDirs : controlButton(dir) \/ handleInput(dir)))
  /\ (pc = "walls" ~> pc = "idle")
  /\ (pc = "key" ~> pc = "idle")

\* a wall loop that ran out of candidates before the target was kept
C18_Witness ==
  /\ pc = "walls"
  /\ possibleWalls = {}
  /\ addedWalls < targetWalls
  /\ addedWalls > 0

\* C14: in PRACTICE mode a collision does not end the run: isPlaying stays
\* true, no outcome is shown and the avatar is back at the start cell; moves
\* made after collisions are carried out as usual (a move over an open edge
\* moves the avatar, and the keyboard still accepts it); only CHALLENGE mode
\* ever shows LEVEL_FAILED.
C14_PracticeCollision ==
  /\ [][\A dir \in MoveDirs :
          (mode = "PRACTICE" /\ isPlaying /\ pc = "idle") =>
            /\ (Collides(dir) /\ MoveStep(dir)) =>
                 /\ isPlaying'
                 /\ outcome' = outcome
                 /\ avatarPos' = StartCell
                 /\ mode' = "PRACTICE"
            /\ (attempts > 0 /\ InGrid(Target(dir)) /\ ~Collides(dir)
                  /\ MoveStep(dir)) =>
                 avatarPos' = Target(dir)]_vars
  /\ [][(outcome' = "LEVEL_FAILED" /\ outcome # "LEVEL_FAILED") =>
          mode = "CHALLENGE"]_vars
  /\ []((mode = "PRACTICE" /\ isPlaying /\ pc = "idle" /\ attempts > 0) =>
          \A dir \in MoveDirs :
            (InGrid(Target(dir)) /\ ~Collides(dir)) => ENABLED handleInput(dir))

\* a PRACTICE run still going after two collisions, the avatar having moved
\* on from the start cell to the key
C14_Witness ==
  /\ mode = "PRACTICE"
  /\ pc = "idle"
  /\ isPlaying
  /\ attempts = 2
  /\ outcome = "NONE"
  /\ hasKey
  /\ avatarPos = keyPos

\* C19: in every state reached by moveAvatar calls after a startGame the door
\* is reachable from the avatar's cell over open edges, and while hasKey is
\* false so is the key.
C19_NeverUnwinnable ==
  (pc = "idle" /\ LevelGenerated) =>
    LET fromAvatar == Closure(walls, gridSize, {avatarPos})
    IN /\ doorPos \in fromAvatar
       /\ ~hasKey => keyPos \in fromAvatar

\* the avatar away from the start cell, without the key, after a collision,
\* in a level whose two walls close off a corner cell
C19_Witness ==
  /\ pc = "idle"
  /\ LevelGenerated
  /\ ~hasKey
  /\ attempts > 0
  /\ avatarPos = Pos(1, 1)
  /\ WallSet(walls) = {Wall(1, 2, "right"), Wall(2, 1, "bottom")}

\* C20: the avatar position always satisfies 0 <= x < N and 0 <= y < N, and
\* it changes only to a 4-neighbour across an edge without a wall or to the
\* start cell (0, N-1).
C20_AvatarInGrid ==
  /\ [](InGrid(avatarPos))
  /\ [][avatarPos' # avatarPos =>
          \/ pc = "idle" /\ OpenEdge(walls, avatarPos, avatarPos')
          \/ avatarPos' = StartCell]_vars

\* the avatar in the corner opposite the start cell's column after a
\* collision sent it back to the start
C20_Witness ==
  /\ pc = "idle"
  /\ LevelGenerated
  /\ attempts > 0
  /\ avatarPos = Pos(2, 2)

====
